---- MODULE Spec2Model ----
(***************************************************************************)
(* Model of the real-time playback engine (class PlaybackEngine) of the    *)
(* retro music tracker.  The implementation is the second half of          *)
(* src/src/infrastructure/audio/__tests__/PlaybackEngine.spec.ts (lines    *)
(* 233-554); the domain values it consumes (Note, Step, Pattern, Song,     *)
(* PatternEntry) are in src/src/domain/Note.ts and src/unnamed/part_000.   *)
(*                                                                         *)
(* Time is counted in milliseconds.  JavaScript handlers run to            *)
(* completion, so every public method and the timer callback is one        *)
(* action; the while loop of scheduleNotes is the operator scheduleLoop,    *)
(* cut off after MaxIterations + 1 iterations (the engine is then "hung":  *)
(* the loop is still running and, JavaScript being single-threaded,        *)
(* nothing else can ever run).                                             *)
(*                                                                         *)
(* The Synthesizer (same file, lines 581-717) and the ChannelMixer         *)
(* (src/src/infrastructure/audio/ChannelMixer.ts) are not wired to the     *)
(* engine in the code, so each has its own next-state relation: SynthSpec  *)
(* and MixerSpec.  The 'ended' event of an oscillator may fire at any      *)
(* moment after the oscillator was started.                                *)
(***************************************************************************)
EXTENDS Integers, Sequences, FiniteSets, TLC

VARIABLES
    state,              \* PlaybackEngine.state
    currentPattern,     \* PlaybackEngine.currentPattern (NullPattern = null)
    currentSong,        \* PlaybackEngine.currentSong (NullSong = null)
    patternMap,         \* PlaybackEngine.patternMap
    bpm,                \* PlaybackEngine.bpm
    currentStep,        \* PlaybackEngine.currentStep
    startTime,          \* PlaybackEngine.startTime (ms)
    pauseTime,          \* PlaybackEngine.pauseTime (ms)
    scheduleInterval,   \* PlaybackEngine.scheduleInterval (TRUE = holds a timer handle)
    totalLoops,         \* PlaybackEngine.totalLoops
    currentLoop,        \* PlaybackEngine.currentLoop
    onCompleteCallback, \* PlaybackEngine.onCompleteCallback (TRUE = registered)
    now,                \* audioContext.currentTime (ms)
    liveTimers,         \* number of setInterval timers created and not cleared
    voices,             \* the sounds scheduled by playNote since the last (re)start that have not ended
    completeCalls,      \* invocations of the onComplete callback since the last (re)start
    played,             \* ids of the pattern passes completed in song mode since the last (re)start
    songFinished,       \* the last handler ran the completion branch of handleSongAdvance
    iterations,         \* steps triggered by the most recent scheduleNotes call
    error,              \* exception thrown by the last handler ("none" if it returned)
    hung,               \* the last handler's scheduling loop did not terminate
    sessionKind,        \* which call began the current session: "none", "pattern" or "song"
    sessionSong,        \* the song passed to the startSong that began the session
    sessions,           \* number of start/startSong calls that began a session
    lastCall,           \* the last of start/startSong/stop/pause/resume that got past its state guard
    triggered,          \* channels of the notes the last handler triggered for the last step it processed, in order
    channelWaveforms,   \* Synthesizer.channelWaveforms
    activeVoices,       \* Synthesizer.activeVoices (channel -> oscillators of the tracked voices)
    oscillators,        \* every oscillator the synthesizer started: channel, type and playback status
    synthError,         \* exception thrown by the last Synthesizer call ("none" if it returned)
    channels,           \* ChannelMixer.channels (channel index -> connectedNodes)
    wired,              \* <<node, channel>>: the node's output is connected to that channel's gain node
    disconnected,       \* the nodes the last ChannelMixer call called disconnect() on
    mixerError,         \* exception thrown by the last ChannelMixer call ("none" if it returned)
    masterGain,         \* ChannelMixer.masterGain.gain.value, in hundredths
    editedPattern,      \* the Pattern value being edited; PatternEditor.currentPattern
    editorError,        \* exception thrown by the last Pattern / PatternEditor call
    editorCall,         \* the method the last Pattern / PatternEditor call invoked
    composerSong,       \* SongComposer.currentSong
    composerError,      \* message of the exception thrown by the last Song / SongComposer call
    composerCall,       \* the method the last Song / SongComposer call invoked
    exportSong,         \* the song of the last AudioExporter.export call
    exportOptions,      \* the options of the last AudioExporter.export call
    exportResult        \* what the last AudioExporter.export call returned

vars == <<state, currentPattern, currentSong, patternMap, bpm, currentStep,
          startTime, pauseTime, scheduleInterval, totalLoops, currentLoop,
          onCompleteCallback, now, liveTimers, voices, completeCalls, played,
          songFinished, iterations, error, hung, sessionKind, sessionSong,
          sessions, lastCall, triggered, channelWaveforms, activeVoices,
          oscillators, synthError, channels, wired, disconnected, mixerError,
          masterGain, editedPattern, editorError, editorCall, composerSong,
          composerError, composerCall, exportSong, exportOptions, exportResult>>

\* The fields of the ChannelMixer and the audio-graph edges it made.
mixerVars == <<channels, wired, disconnected, mixerError, masterGain>>

\* The pattern under the PatternEditor and the outcome of the last edit.
editorVars == <<editedPattern, editorError, editorCall>>

\* The song under the SongComposer and the outcome of the last call.
composerVars == <<composerSong, composerError, composerCall>>

\* The last export: its arguments and its result.
exportVars == <<exportSong, exportOptions, exportResult>>

\* The fields of the Synthesizer and the oscillators it created.
synthVars == <<channelWaveforms, activeVoices, oscillators, synthError>>

-----------------------------------------------------------------------------
(* Bounds and program constants *)

MaxTicks == 3
MaxSessions == 2
MaxIterations == 100
MaxVoices == 2
MaxChannels == 2
MaxNotes == 2
MaxSequence == 2
SCHEDULE_AHEAD_TIME == 100
SCHEDULE_INTERVAL == 25

BPMs == {120, 300}

-----------------------------------------------------------------------------
(* Domain values *)

NullPattern == [id |-> "null", stepCount |-> 0, steps |-> <<>>]
NullSong == [id |-> "null", bpm |-> 0, repeatCount |-> 0, patternSequence |-> <<>>]

Note(pitch, duration, channel) ==
    [pitch |-> pitch, duration |-> duration, channel |-> channel]

\* steps[i + 1] is the notes array of the Step at position i.
Pattern(id, stepCount, steps) ==
    [id |-> id, stepCount |-> stepCount, steps |-> steps]

PatternEntry(patternId, repeat) == [patternId |-> patternId, repeat |-> repeat]

Song(id, songBpm, repeatCount, patternSequence) ==
    [id |-> id, bpm |-> songBpm, repeatCount |-> repeatCount,
     patternSequence |-> patternSequence]

\* The non-finite numbers are values outside the range of the numbers the
\* model computes with.  NaN as a note duration: the Note constructor only
\* rejects duration <= 0, which NaN is not, and oscillator.stop(NaN) throws.
NaN == 0 - 1000000
Infinity == 1000000

\* Number.isFinite, and the operators <= and > of JavaScript, which are false
\* whenever an operand is NaN.
isFinite(x) == x # NaN /\ x # Infinity
lessOrEqual(x, y) == x # NaN /\ y # NaN /\ x <= y
greaterThan(x, y) == x # NaN /\ y # NaN /\ x > y

NoteC == Note("C4", 1, 0)
NoteE == Note("E4", 2, 1)

PatA == Pattern("A", 2, << <<NoteC>>, <<>> >>)
PatB == Pattern("B", 4, << <<NoteE>>, <<>>, <<NoteC, NoteE>>,
                           <<NoteC, Note("D4", NaN, 2), NoteE>> >>)
\* An edited version of pattern A: one step longer, with the notes of step 1
\* added on channel 1 first and on channel 0 second.
PatA2 == Pattern("A", 3, << <<>>, <<NoteE, NoteC>>, <<>> >>)

UpdatedPatterns == {PatA2}

\* An empty song, a song of one entry and a song of two entries played twice.
Songs == {Song("S0", 120, 1, <<>>),
          Song("S1", 120, 1, <<PatternEntry("A", 1)>>),
          Song("S2", 300, 2, <<PatternEntry("A", 1), PatternEntry("B", 1)>>)}

EmptyMap == [k \in {} |-> NullPattern]

MapSet(m, k, v) == [x \in (DOMAIN m) \cup {k} |-> IF x = k THEN v ELSE m[x]]

RECURSIVE BuildMap(_, _)
BuildMap(m, patterns) ==
    IF patterns = <<>> THEN m
    ELSE BuildMap(MapSet(m, Head(patterns).id, Head(patterns)), Tail(patterns))

-----------------------------------------------------------------------------
(* The engine as a record, and the methods as operators on it *)

Eng ==
    [state |-> state, currentPattern |-> currentPattern,
     currentSong |-> currentSong, patternMap |-> patternMap, bpm |-> bpm,
     currentStep |-> currentStep, startTime |-> startTime,
     pauseTime |-> pauseTime, scheduleInterval |-> scheduleInterval,
     totalLoops |-> totalLoops, currentLoop |-> currentLoop,
     onCompleteCallback |-> onCompleteCallback, liveTimers |-> liveTimers,
     voices |-> voices, completeCalls |-> completeCalls, played |-> played,
     songFinished |-> FALSE, iterations |-> iterations, error |-> "none",
     hung |-> hung, sessionKind |-> sessionKind, sessionSong |-> sessionSong,
     sessions |-> sessions, triggered |-> <<>>]

getStepDuration(E) == (60000 \div E.bpm) \div 4

getNextNoteTime(E) == E.startTime + (E.currentStep * getStepDuration(E))

clearInterval(E) ==
    IF E.scheduleInterval
    THEN [E EXCEPT !.scheduleInterval = FALSE, !.liveTimers = @ - 1]
    ELSE E

\* stop() that forgets patternMap.clear().
stop_keepsPatternMap(E) ==
    [clearInterval(E) EXCEPT
        !.state = "stopped",
        !.currentStep = 0,
        !.currentLoop = 0,
        !.currentPattern = NullPattern,
        !.currentSong = NullSong]

stop(E) ==
    [clearInterval(E) EXCEPT
        !.state = "stopped",
        !.currentStep = 0,
        !.currentLoop = 0,
        !.currentPattern = NullPattern,
        !.currentSong = NullSong,
        !.patternMap = EmptyMap]

\* oscillator.start(startTime) always succeeds; oscillator.stop(startTime +
\* duration) throws a TypeError for a non-finite time, leaving an oscillator
\* that was started and has no stop scheduled.
playNote(E, note, noteTime) ==
    IF note.duration = NaN
    THEN [E EXCEPT !.voices = @ \cup {[channel |-> note.channel,
                                        pitch |-> note.pitch,
                                        start |-> noteTime,
                                        stop |-> noteTime,
                                        endless |-> TRUE]},
                   !.triggered = Append(@, note.channel),
                   !.error = "TypeError"]
    ELSE [E EXCEPT !.voices = @ \cup {[channel |-> note.channel,
                                        pitch |-> note.pitch,
                                        start |-> noteTime,
                                        stop |-> noteTime + note.duration * getStepDuration(E),
                                        endless |-> FALSE]},
                   !.triggered = Append(@, note.channel)]

\* step.notes.forEach(...): array order; an exception ends the iteration.
RECURSIVE playNotes(_, _, _)
playNotes(E, notes, noteTime) ==
    IF notes = <<>> \/ E.error # "none" THEN E
    ELSE playNotes(playNote(E, Head(notes), noteTime), Tail(notes), noteTime)

handleSongAdvance(E) ==
    IF E.currentSong = NullSong THEN E
    ELSE LET E1 == [E EXCEPT !.currentLoop = @ + 1]
         IN  IF E1.currentLoop >= E1.totalLoops
             THEN LET E2 == [stop(E1) EXCEPT !.songFinished = TRUE]
                  IN  IF E2.onCompleteCallback
                      THEN [E2 EXCEPT !.completeCalls = @ + 1]
                      ELSE E2
             ELSE E1

\* Lines 475-484: the pattern/song boundary check after the playhead advanced.
wrap(E) ==
    IF E.currentStep >= E.currentPattern.stepCount
    THEN LET E1 == [E EXCEPT !.currentStep = 0]
         IN  IF E1.currentSong # NullSong
             THEN handleSongAdvance([E1 EXCEPT !.played = Append(@, E.currentPattern.id)])
             ELSE [E1 EXCEPT !.currentLoop = @ + 1]
    ELSE E

\* One evaluation of the while condition of scheduleNotes followed, when it
\* holds, by one execution of the loop body (lines 460-485).  A loop that has
\* exited (condition false, or an exception thrown) stays as it is.
loopStep(E, scheduleUntil) ==
    IF E.error # "none" THEN E
    ELSE IF ~(getNextNoteTime(E) < scheduleUntil) THEN E
    ELSE IF E.currentPattern = NullPattern
         THEN [E EXCEPT !.error = "TypeError"]
    ELSE IF E.currentStep < 0 \/ E.currentStep >= E.currentPattern.stepCount
         THEN [E EXCEPT !.error = "Error"]
    ELSE IF E.currentStep + 1 > Len(E.currentPattern.steps)
         THEN [E EXCEPT !.error = "TypeError"]
    ELSE LET noteTime == getNextNoteTime(E)
             step == E.currentPattern.steps[E.currentStep + 1]
             E1 == playNotes([E EXCEPT !.triggered = <<>>], step, noteTime)
             E2 == [E1 EXCEPT !.currentStep = @ + 1, !.iterations = @ + 1]
         IN  IF E1.error # "none" THEN E1 ELSE wrap(E2)

\* n successive loopSteps (split in halves to keep the evaluation shallow).
RECURSIVE iterate(_, _, _)
iterate(E, scheduleUntil, n) ==
    IF n = 0 \/ E.error # "none" \/ ~(getNextNoteTime(E) < scheduleUntil) THEN E
    ELSE IF n = 1 THEN loopStep(E, scheduleUntil)
    ELSE CHOOSE R \in {iterate(H, scheduleUntil, n - (n \div 2)) :
                            H \in {iterate(E, scheduleUntil, n \div 2)}} : TRUE

\* The while loop of scheduleNotes, run for at most fuel iterations: a loop
\* whose condition still holds after that many has not terminated.
scheduleLoop(E, scheduleUntil, fuel) ==
    LET R == iterate(E, scheduleUntil, fuel)
    IN  IF R.error = "none" /\ getNextNoteTime(R) < scheduleUntil
        THEN [R EXCEPT !.hung = TRUE]
        ELSE R

scheduleNotes(E, t) ==
    IF E.currentPattern = NullPattern THEN [E EXCEPT !.iterations = 0]
    ELSE scheduleLoop([E EXCEPT !.iterations = 0], t + SCHEDULE_AHEAD_TIME,
                      MaxIterations + 1)

schedulePlayback(E, t) ==
    IF E.scheduleInterval THEN E
    ELSE scheduleNotes([E EXCEPT !.scheduleInterval = TRUE, !.liveTimers = @ + 1], t)

\* The setInterval callback (lines 436-442).
timerCallback(E, t) ==
    IF E.state # "playing" \/ E.currentPattern = NullPattern THEN E
    ELSE scheduleNotes(E, t)

start(E, pattern, newBpm, t) ==
    IF E.state = "playing" THEN E
    ELSE schedulePlayback(
            [E EXCEPT !.currentPattern = pattern,
                      !.bpm = newBpm,
                      !.currentStep = 0,
                      !.currentLoop = 0,
                      !.totalLoops = 1,
                      !.startTime = t,
                      !.state = "playing",
                      !.sessionKind = "pattern",
                      !.sessionSong = NullSong,
                      !.sessions = @ + 1,
                      !.completeCalls = 0,
                      !.played = <<>>,
                      !.voices = {}], t)

startSong(E, song, patterns, t) ==
    IF E.state = "playing" THEN E
    ELSE LET map == BuildMap(EmptyMap, patterns)
             E1 == [E EXCEPT !.currentSong = song,
                             !.bpm = song.bpm,
                             !.totalLoops = song.repeatCount,
                             !.currentLoop = 0,
                             !.currentStep = 0,
                             !.startTime = t,
                             !.state = "playing",
                             !.patternMap = map,
                             !.sessionKind = "song",
                             !.sessionSong = song,
                             !.sessions = @ + 1,
                             !.completeCalls = 0,
                             !.played = <<>>,
                             !.voices = {}]
             E2 == IF Len(song.patternSequence) > 0
                   THEN LET firstPatternId == song.patternSequence[1].patternId
                        IN  [E1 EXCEPT !.currentPattern =
                                IF firstPatternId \in DOMAIN map
                                THEN map[firstPatternId] ELSE NullPattern]
                   ELSE E1
         IN  schedulePlayback(E2, t)

\* pause() without its state guard.
pause_unguarded(E, t) ==
    [clearInterval(E) EXCEPT !.pauseTime = t, !.state = "paused"]

\* pause() that leaves the timer running.
pause_keepsTimer(E, t) ==
    IF E.state # "playing" THEN E
    ELSE [E EXCEPT !.pauseTime = t, !.state = "paused"]

pause(E, t) ==
    IF E.state # "playing" THEN E
    ELSE [clearInterval(E) EXCEPT !.pauseTime = t, !.state = "paused"]

\* resume() that does not shift startTime by the pause duration.
resume_noShift(E, t) ==
    IF E.state # "paused" THEN E
    ELSE schedulePlayback([E EXCEPT !.state = "playing"], t)

resume(E, t) ==
    IF E.state # "paused" THEN E
    ELSE LET pauseDuration == t - E.pauseTime
         IN  schedulePlayback([E EXCEPT !.startTime = @ + pauseDuration,
                                        !.state = "playing"], t)

\* updatePattern() that also rewinds the playhead.
updatePattern_rewinds(E, pattern) ==
    LET E1 == [E EXCEPT !.currentPattern = pattern, !.currentStep = 0]
    IN  IF E1.currentSong # NullSong /\ pattern.id \in DOMAIN E1.patternMap
        THEN [E1 EXCEPT !.patternMap = MapSet(@, pattern.id, pattern)]
        ELSE E1

updatePattern(E, pattern) ==
    LET E1 == [E EXCEPT !.currentPattern = pattern]
    IN  IF E1.currentSong # NullSong /\ pattern.id \in DOMAIN E1.patternMap
        THEN [E1 EXCEPT !.patternMap = MapSet(@, pattern.id, pattern)]
        ELSE E1

onComplete(E) == [E EXCEPT !.onCompleteCallback = TRUE]

-----------------------------------------------------------------------------
(* The Synthesizer (PlaybackEngine.spec.ts lines 581-717) *)

\* Channel indices passed to the synthesizer, and the waveforms passed to
\* setWaveform; configWaveform is config.waveform.
SynthChannels == 0 .. 1
Waveforms == {"triangle", "sawtooth"}
configWaveform == "square"

\* Map.get(k) ?? default
GetOr(m, k, default) == IF k \in DOMAIN m THEN m[k] ELSE default

Syn ==
    [channelWaveforms |-> channelWaveforms, activeVoices |-> activeVoices,
     oscillators |-> oscillators, synthError |-> "none"]

\* playNote that never tracks the voice it starts.
Synthesizer_playNote_untracked(S, channelIndex, rejected) ==
    IF rejected THEN [S EXCEPT !.synthError = "Error"]
    ELSE [S EXCEPT !.oscillators = Append(@,
                [channelIndex |-> channelIndex,
                 type |-> GetOr(S.channelWaveforms, channelIndex, configWaveform),
                 status |-> "scheduled"])]

\* Synthesizer.playNote.  Everything that can throw (a non-finite frequency
\* or envelope time, the connectToMixer callback) comes before
\* oscillator.start: a rejected call starts and tracks nothing.
Synthesizer_playNote(S, channelIndex, rejected) ==
    IF rejected THEN [S EXCEPT !.synthError = "Error"]
    ELSE LET osc == Len(S.oscillators) + 1
             S1 == [S EXCEPT !.oscillators = Append(@,
                        [channelIndex |-> channelIndex,
                         type |-> GetOr(S.channelWaveforms, channelIndex, configWaveform),
                         status |-> "scheduled"])]
         IN  [S1 EXCEPT !.activeVoices =
                 MapSet(@, channelIndex, Append(GetOr(@, channelIndex, <<>>), osc))]

\* oscillator.stop(currentTime) on every oscillator of the set: one that is
\* still scheduled stops now, one that already stopped or ended is left as
\* it is (an exception is swallowed).
stopOscillators(S, oscs) ==
    [S EXCEPT !.oscillators =
        [o \in DOMAIN @ |->
            IF o \in oscs /\ @[o].status = "scheduled"
            THEN [@[o] EXCEPT !.status = "stopped"] ELSE @[o]]]

Range(seq) == {seq[i] : i \in DOMAIN seq}

\* stopChannel that stops the voices and keeps them tracked.
stopChannel_keepsTracking(S, channelIndex) ==
    stopOscillators(S, Range(GetOr(S.activeVoices, channelIndex, <<>>)))

stopChannel(S, channelIndex) ==
    LET S1 == stopOscillators(S, Range(GetOr(S.activeVoices, channelIndex, <<>>)))
    IN  [S1 EXCEPT !.activeVoices = MapSet(@, channelIndex, <<>>)]

stopAll(S) ==
    LET S1 == stopOscillators(S, UNION {Range(S.activeVoices[c]) : c \in DOMAIN S.activeVoices})
    IN  [S1 EXCEPT !.activeVoices = [c \in DOMAIN @ |-> <<>>]]

\* setWaveform that sets the waveform of every channel.
setWaveform_allChannels(S, channelIndex, waveform) ==
    [S EXCEPT !.channelWaveforms = [c \in SynthChannels |-> waveform]]

setWaveform(S, channelIndex, waveform) ==
    [S EXCEPT !.channelWaveforms = MapSet(@, channelIndex, waveform)]

\* The 'ended' listener installed by playNote (lines 635-637).
onEnded(S, osc) ==
    LET channelIndex == S.oscillators[osc].channelIndex
    IN  [S EXCEPT !.oscillators[osc].status = "ended",
                  !.activeVoices =
                      MapSet(@, channelIndex,
                             SelectSeq(GetOr(@, channelIndex, <<>>), LAMBDA v : v # osc))]

-----------------------------------------------------------------------------
(* The ChannelMixer (src/src/infrastructure/audio/ChannelMixer.ts); *)
(* MaxChannels is config.maxChannels.                                *)

Nodes == {"n1", "n2"}
MixerIndices == (0 - 1) .. (MaxChannels + 1)

\* Volumes are counted in hundredths: FullVolume is the gain 1.
FullVolume == 100
MasterVolumes == {0 - 50, 50, 150}

Min(a, b) == IF a < b THEN a ELSE b
Max(a, b) == IF a > b THEN a ELSE b

Mix ==
    [channels |-> channels, wired |-> wired, disconnected |-> {},
     mixerError |-> "none", masterGain |-> masterGain]

\* new ChannelMixer(audioContext, {maxChannels: MaxChannels, masterVolume}):
\* a fresh master gain node that holds config.masterVolume as given, and
\* MaxChannels channel gains with nothing connected.
ChannelMixer(masterVolume) ==
    [channels |-> [i \in 0 .. (MaxChannels - 1) |-> {}], wired |-> {},
     disconnected |-> {}, mixerError |-> "none", masterGain |-> masterVolume]

\* isChannelAvailable without the lower bound.
isChannelAvailable_noLowerBound(channelIndex) == channelIndex < MaxChannels

isChannelAvailable(channelIndex) ==
    channelIndex >= 0 /\ channelIndex < MaxChannels

\* getActiveChannelCount that counts the connected nodes.
getActiveChannelCount_countsNodes(M) ==
    Cardinality({<<i, n>> \in (DOMAIN M.channels) \X Nodes : n \in M.channels[i]})

\* The loop over the entries of the map: the channels whose set is not empty.
getActiveChannelCount(M) ==
    Cardinality({i \in DOMAIN M.channels : Cardinality(M.channels[i]) > 0})

connectChannel(M, channelIndex, node) ==
    IF ~isChannelAvailable(channelIndex) THEN [M EXCEPT !.mixerError = "Error"]
    ELSE IF channelIndex \in DOMAIN M.channels
         THEN [M EXCEPT !.wired = @ \cup {<<node, channelIndex>>},
                        !.channels[channelIndex] = @ \cup {node}]
         ELSE M

\* disconnectChannel that clears every channel.
disconnectChannel_clearsAll(M, channelIndex) ==
    IF channelIndex \in DOMAIN M.channels
    THEN [M EXCEPT !.wired = {},
                   !.disconnected = UNION {M.channels[i] : i \in DOMAIN M.channels},
                   !.channels = [i \in DOMAIN @ |-> {}]]
    ELSE M

\* node.disconnect() removes every output connection of the node.
disconnectChannel(M, channelIndex) ==
    IF channelIndex \in DOMAIN M.channels
    THEN [M EXCEPT !.wired = {e \in @ : e[1] \notin M.channels[channelIndex]},
                   !.disconnected = M.channels[channelIndex],
                   !.channels[channelIndex] = {}]
    ELSE M

setMasterVolume(M, volume) ==
    LET clampedVolume == Max(0, Min(FullVolume, volume))
    IN  [M EXCEPT !.masterGain = clampedVolume]

-----------------------------------------------------------------------------
(* Step and Pattern (src/unnamed/part_000) and the PatternEditor            *)
(* (src/unnamed/part_002).  A Step is its notes array; the editor is        *)
(* constructed with the default maxChannels.  An exception is a record of   *)
(* its message and of the index the message names.                          *)

maxChannels == 8

NoError == [kind |-> "none", index |-> 0]
Err(kind, index) == [kind |-> kind, index |-> index]
\* "Cannot read properties of undefined": the message names no index.
TypeError == Err("TypeError", 0)

\* A new 2-step pattern, and a pattern constructed with a steps array that
\* is shorter than its stepCount.
EmptyPattern == Pattern("P", 2, << <<>>, <<>> >>)

EditorNotes == {NoteC, NoteE}
EditorChannelIndices == {0 - 1, 0, 1, maxChannels}
EditorStepIndices == (0 - 1) .. EmptyPattern.stepCount

Ed == [pattern |-> editedPattern, error |-> NoError]

Step_addNote(notes, note) == Append(notes, note)

removeNoteAtChannel(notes, channel) ==
    SelectSeq(notes, LAMBDA note : note.channel # channel)

hasNoteForChannel(notes, channel) ==
    \E i \in DOMAIN notes : notes[i].channel = channel

\* Array.find: the first note on the channel.
getNoteForChannel(notes, channel) ==
    notes[CHOOSE i \in DOMAIN notes :
              /\ notes[i].channel = channel
              /\ \A j \in 1 .. (i - 1) : notes[j].channel # channel]

\* this.steps[position] is undefined beyond the end of the steps array.
isDefinedStep(P, position) == (position + 1) \in DOMAIN P.steps

setStep(P, position, notes) == [P EXCEPT !.steps[position + 1] = notes]

\* Results of the Pattern methods: the new Pattern, or the exception thrown.
addNoteAtStep(P, stepPosition, note) ==
    IF stepPosition < 0 \/ stepPosition >= P.stepCount
    THEN [pattern |-> P, error |-> Err("Step position out of bounds", 0)]
    ELSE IF ~isDefinedStep(P, stepPosition)
    THEN [pattern |-> P, error |-> TypeError]
    ELSE [pattern |-> setStep(P, stepPosition,
                              Step_addNote(P.steps[stepPosition + 1], note)),
          error |-> NoError]

removeNoteAtStep(P, stepPosition, channel) ==
    IF stepPosition < 0 \/ stepPosition >= P.stepCount
    THEN [pattern |-> P, error |-> Err("Step position out of bounds", 0)]
    ELSE IF ~isDefinedStep(P, stepPosition)
    THEN [pattern |-> P, error |-> TypeError]
    ELSE [pattern |-> setStep(P, stepPosition,
                              removeNoteAtChannel(P.steps[stepPosition + 1], channel)),
          error |-> NoError]

\* The exception of validateChannelIndex / validateStepIndex, NoError if none.
validateChannelIndex(channelIndex) ==
    IF channelIndex >= maxChannels
    THEN Err("Channel exceeds pattern channel limit", channelIndex)
    ELSE IF channelIndex < 0 THEN Err("Channel is negative", channelIndex)
    ELSE NoError

validateStepIndex(P, stepIndex) ==
    IF stepIndex >= P.stepCount THEN Err("Step is out of bounds", stepIndex)
    ELSE IF stepIndex < 0 THEN Err("Step is negative", stepIndex)
    ELSE NoError

\* The first exception of a list of validations, in call order.
firstError(errors) ==
    IF \A i \in DOMAIN errors : errors[i] = NoError THEN NoError
    ELSE errors[CHOOSE i \in DOMAIN errors :
                    /\ errors[i] # NoError
                    /\ \A j \in 1 .. (i - 1) : errors[j] = NoError]

Editor_addNote(D, stepIndex, channelIndex, note) ==
    LET invalid == firstError(<<validateChannelIndex(channelIndex),
                                validateStepIndex(D.pattern, stepIndex)>>)
        noteWithChannel == Note(note.pitch, note.duration, channelIndex)
    IN  IF invalid # NoError THEN [D EXCEPT !.error = invalid]
        ELSE IF ~isDefinedStep(D.pattern, stepIndex)
        THEN [D EXCEPT !.error = TypeError]
        ELSE LET step == D.pattern.steps[stepIndex + 1]
                 updatedStep == Step_addNote(removeNoteAtChannel(step, channelIndex),
                                             noteWithChannel)
             IN  [D EXCEPT !.pattern = setStep(@, stepIndex, updatedStep)]

Editor_removeNote(D, stepIndex, channelIndex) ==
    LET invalid == firstError(<<validateChannelIndex(channelIndex),
                                validateStepIndex(D.pattern, stepIndex)>>)
    IN  IF invalid # NoError THEN [D EXCEPT !.error = invalid]
        ELSE IF ~isDefinedStep(D.pattern, stepIndex)
        THEN [D EXCEPT !.error = TypeError]
        ELSE LET step == D.pattern.steps[stepIndex + 1]
             IN  [D EXCEPT !.pattern = setStep(@, stepIndex,
                                               removeNoteAtChannel(step, channelIndex))]

\* moveNote that leaves the note at the source as well.
Editor_moveNote_copies(D, sourceStep, sourceChannel, targetStep, targetChannel) ==
    LET invalid == firstError(<<validateChannelIndex(sourceChannel),
                                validateChannelIndex(targetChannel),
                                validateStepIndex(D.pattern, sourceStep),
                                validateStepIndex(D.pattern, targetStep)>>)
    IN  IF invalid # NoError THEN [D EXCEPT !.error = invalid]
        ELSE IF ~isDefinedStep(D.pattern, sourceStep)
        THEN [D EXCEPT !.error = TypeError]
        ELSE LET sourceStepObj == D.pattern.steps[sourceStep + 1]
             IN  IF ~hasNoteForChannel(sourceStepObj, sourceChannel)
                 THEN [D EXCEPT !.error = Err("No note at source position", 0)]
                 ELSE Editor_addNote(D, targetStep, targetChannel,
                                     getNoteForChannel(sourceStepObj, sourceChannel))

\* removeNote has replaced currentPattern before addNote runs: an exception
\* of addNote leaves the pattern without the source note.
Editor_moveNote(D, sourceStep, sourceChannel, targetStep, targetChannel) ==
    LET invalid == firstError(<<validateChannelIndex(sourceChannel),
                                validateChannelIndex(targetChannel),
                                validateStepIndex(D.pattern, sourceStep),
                                validateStepIndex(D.pattern, targetStep)>>)
    IN  IF invalid # NoError THEN [D EXCEPT !.error = invalid]
        ELSE IF ~isDefinedStep(D.pattern, sourceStep)
        THEN [D EXCEPT !.error = TypeError]
        ELSE LET sourceStepObj == D.pattern.steps[sourceStep + 1]
             IN  IF ~hasNoteForChannel(sourceStepObj, sourceChannel)
                 THEN [D EXCEPT !.error = Err("No note at source position", 0)]
                 ELSE LET note == getNoteForChannel(sourceStepObj, sourceChannel)
                          removed == Editor_removeNote(D, sourceStep, sourceChannel)
                      IN  IF removed.error # NoError THEN removed
                          ELSE Editor_addNote(removed, targetStep, targetChannel, note)

\* The number of notes a pattern holds.
RECURSIVE noteCount(_, _)
noteCount(P, i) ==
    IF i > Len(P.steps) THEN 0 ELSE Len(P.steps[i]) + noteCount(P, i + 1)

-----------------------------------------------------------------------------
(* Song (src/unnamed/part_000) and the SongComposer (src/unnamed/part_003) *)


SongBpms == {0 - 10, 0, 140, NaN}
RepeatCounts == {0 - 1, 0, 3, Infinity, NaN}
Entries == {PatternEntry("A", 1), PatternEntry("B", 2)}
Positions == (0 - 1) .. MaxSequence

Comp == [song |-> composerSong, error |-> "none"]

\* new Song(id, name, bpm, repeatCount, patternSequence): the message of the
\* exception the constructor throws, "none" if it returns.
Song_constructor(songBpm, repeatCount) ==
    IF lessOrEqual(songBpm, 0) THEN "BPM must be positive"
    ELSE IF lessOrEqual(repeatCount, 0) \/ ~isFinite(repeatCount)
    THEN "Repeat count must be positive and finite"
    ELSE "none"

\* this.currentSong = new Song(...): nothing is assigned when the
\* constructor throws.
assignSong(C, songBpm, repeatCount, patternSequence) ==
    IF Song_constructor(songBpm, repeatCount) # "none"
    THEN [C EXCEPT !.error = Song_constructor(songBpm, repeatCount)]
    ELSE [C EXCEPT !.song = Song(C.song.id, songBpm, repeatCount, patternSequence)]

\* Array.splice(position, 0, entry) and Array.splice(position, 1).
spliceIn(seq, position, entry) ==
    SubSeq(seq, 1, position) \o <<entry>> \o SubSeq(seq, position + 1, Len(seq))

spliceOut(seq, position) ==
    SubSeq(seq, 1, position) \o SubSeq(seq, position + 2, Len(seq))

Composer_addPattern(C, entry) ==
    assignSong(C, C.song.bpm, C.song.repeatCount, Append(C.song.patternSequence, entry))

insertPattern(C, position, entry) ==
    IF position < 0 \/ position > Len(C.song.patternSequence)
    THEN [C EXCEPT !.error = "Position is out of bounds"]
    ELSE assignSong(C, C.song.bpm, C.song.repeatCount,
                    spliceIn(C.song.patternSequence, position, entry))

removePattern(C, position) ==
    IF position < 0 \/ position >= Len(C.song.patternSequence)
    THEN [C EXCEPT !.error = "Position is out of bounds"]
    ELSE assignSong(C, C.song.bpm, C.song.repeatCount,
                    spliceOut(C.song.patternSequence, position))

movePattern(C, fromPosition, toPosition) ==
    IF fromPosition < 0 \/ fromPosition >= Len(C.song.patternSequence)
    THEN [C EXCEPT !.error = "From position is out of bounds"]
    ELSE IF toPosition < 0 \/ toPosition >= Len(C.song.patternSequence)
    THEN [C EXCEPT !.error = "To position is out of bounds"]
    ELSE LET movedEntry == C.song.patternSequence[fromPosition + 1]
         IN  assignSong(C, C.song.bpm, C.song.repeatCount,
                        spliceIn(spliceOut(C.song.patternSequence, fromPosition),
                                 toPosition, movedEntry))

setRepeatCount(C, repeatCount) ==
    IF lessOrEqual(repeatCount, 0)
    THEN [C EXCEPT !.error = "Repeat count must be positive"]
    ELSE assignSong(C, C.song.bpm, repeatCount, C.song.patternSequence)

setBPM(C, newBpm) ==
    IF lessOrEqual(newBpm, 0)
    THEN [C EXCEPT !.error = "BPM must be positive"]
    ELSE assignSong(C, newBpm, C.song.repeatCount, C.song.patternSequence)

validateFiniteLoop(C) ==
    /\ Len(C.song.patternSequence) > 0
    /\ greaterThan(C.song.repeatCount, 0)
    /\ isFinite(C.song.repeatCount)


-----------------------------------------------------------------------------
(* The AudioExporter (class AudioExporter, lines 300-605 of                 *)
(* src/src/infrastructure/export/__tests__/AudioExporter.test.ts).          *)
(* Volumes are counted in hundredths and sample values in thousandths: the  *)
(* sample 1.0 is SampleUnit.  Durations are exact fractions of a second.    *)
(* The song it is given is the plain object of the export data model: a     *)
(* pattern list and patternOrder, the pattern ids in play order.            *)
(* repeatCount is the song-level repeat count of the Song of the            *)
(* specification; the exporter reads no such field.                         *)

SampleUnit == 1000

NullNote == [present |-> FALSE, rest |-> FALSE, pitch |-> 0, volume |-> 0]
ExportNote(pitch, volume) ==
    [present |-> TRUE, rest |-> FALSE, pitch |-> pitch, volume |-> volume]

\* createPattern: a square channel with a note on every 4th step and a
\* triangle channel with a note on every 8th step.
createPattern(id, stepsCount) ==
    [id |-> id, stepsCount |-> stepsCount,
     channels |-> <<
        [waveform |-> "square",
         steps |-> [i \in 1 .. stepsCount |->
                       IF (i - 1) % 4 = 0 THEN ExportNote(69, 80) ELSE NullNote]],
        [waveform |-> "triangle",
         steps |-> [i \in 1 .. stepsCount |->
                       IF (i - 1) % 8 = 0 THEN ExportNote(57, 60) ELSE NullNote]] >>]

\* createEmptyPattern: two channels made by createEmptyChannel, every step
\* with a null note.
createEmptyPattern(id, stepsCount) ==
    [id |-> id, stepsCount |-> stepsCount,
     channels |-> [c \in 1 .. 2 |->
                     [waveform |-> "square",
                      steps |-> [i \in 1 .. stepsCount |-> NullNote]]]]

ExportSongOf(songBpm, patterns, patternOrder, repeatCount) ==
    [bpm |-> songBpm, stepsPerBeat |-> 4, patterns |-> patterns,
     patternOrder |-> patternOrder, repeatCount |-> repeatCount]

\* The songs exported: a pattern with notes and a silent one, the silent one
\* alone, or the pattern with the note of its second channel at step 0
\* replaced by a rest (a note whose pitch is null); orders that are empty,
\* repeat a pattern or name a pattern that does not exist; a song-level
\* repeat count of 1 or 2.
ExportSongs ==
    {ExportSongOf(b, l, o, r) :
        b \in BPMs,
        l \in {<<createPattern("p1", 2), createEmptyPattern("p2", 3)>>,
               <<createEmptyPattern("p2", 3)>>,
               <<[createPattern("p1", 2) EXCEPT
                     !.channels[2].steps[1] = [@ EXCEPT !.rest = TRUE]]>>},
        o \in {<<>>, <<"p1">>, <<"p2">>, <<"p1", "p2">>, <<"p2", "p2">>,
               <<"p2", "p1", "p1">>, <<"p1", "zz">>},
        r \in {1, 2}}

\* AudioExportOptions, with sample rates small enough to enumerate the buffer.
ExportOptionsSet ==
    [sampleRate : {20, 40}, bitDepth : {8, 16, 24, 32}, audioChannels : {1, 2}]

\* song.patterns.find(p => p.id === patternId): the matching patterns, in order.
findPattern(song, patternId) ==
    SelectSeq(song.patterns, LAMBDA p : p.id = patternId)

\* The reduce over patternOrder: the steps of the first id, if a pattern has
\* it, plus the total of the rest of the order.
RECURSIVE getTotalSteps(_)
getTotalSteps(song) ==
    IF song.patternOrder = <<>> THEN 0
    ELSE LET found == findPattern(song, Head(song.patternOrder))
         IN  (IF found = <<>> THEN 0 ELSE found[1].stepsCount)
                 + getTotalSteps([song EXCEPT !.patternOrder = Tail(@)])

\* (totalSteps * (1 / stepsPerBeat) / bpm) * 60 seconds, as a fraction.
calculateDuration(song) ==
    [num |-> getTotalSteps(song) * 60, den |-> song.stepsPerBeat * song.bpm]

\* ((1 / stepsPerBeat) / bpm) * 60 seconds, as a fraction.
Exporter_getStepDuration(song) ==
    [num |-> 60, den |-> song.stepsPerBeat * song.bpm]

\* Math.floor(seconds * sampleRate)
floorSamples(seconds, sampleRate) == (seconds.num * sampleRate) \div seconds.den

\* 440 * 2^((midi - 69) / 12) Hz, for the pitches whole octaves from A4.
midiToFrequency(midi) ==
    IF midi >= 69 THEN 440 * 2 ^ ((midi - 69) \div 12)
    ELSE 440 \div 2 ^ ((69 - midi) \div 12)

\* The envelope at a sample, in thousandths: a ramp over the first 1% and
\* over the last 5% of the samples.
applyEnvelope(sampleIndex, totalSamples) ==
    IF sampleIndex * 100 < totalSamples
    THEN (sampleIndex * 100 * SampleUnit) \div totalSamples
    ELSE IF sampleIndex * 100 > 95 * totalSamples
    THEN ((totalSamples - sampleIndex) * 20 * SampleUnit) \div totalSamples
    ELSE SampleUnit

\* renderNote: silence for a rest; else, per sample, the waveform at phase
\* p / sampleRate (in thousandths) times the volume and the envelope.
renderNote(note, waveform, sampleRate, numSamples) ==
    IF note.rest THEN [i \in 1 .. numSamples |-> 0]
    ELSE LET frequency == midiToFrequency(note.pitch)
         IN  [i \in 1 .. numSamples |->
                 LET p == (frequency * (i - 1)) % sampleRate
                     folded == IF 4 * p < 2 * sampleRate
                               THEN 2 * sampleRate - 4 * p
                               ELSE 4 * p - 2 * sampleRate
                     sample ==
                         CASE waveform = "square" ->
                                 IF 2 * p < sampleRate THEN SampleUnit
                                 ELSE 0 - SampleUnit
                           [] waveform = "triangle" ->
                                 ((folded - sampleRate) * SampleUnit) \div sampleRate
                           [] waveform = "sawtooth" ->
                                 ((2 * p - sampleRate) * SampleUnit) \div sampleRate
                     envelope == applyEnvelope(i - 1, numSamples)
                 IN  (sample * note.volume * envelope) \div (FullVolume * SampleUnit)]

RECURSIVE sumOver(_, _, _)
sumOver(chans, rendered, i) ==
    IF chans = {} THEN 0
    ELSE LET c == CHOOSE x \in chans : TRUE
         IN  rendered[c][i] + sumOver(chans \ {c}, rendered, i)

renderStep(pattern, stepIndex, options, numSamples) ==
    LET chans == {c \in DOMAIN pattern.channels :
                     /\ (stepIndex + 1) \in DOMAIN pattern.channels[c].steps
                     /\ pattern.channels[c].steps[stepIndex + 1].present}
        rendered == [c \in chans |->
                        renderNote(pattern.channels[c].steps[stepIndex + 1],
                                   pattern.channels[c].waveform,
                                   options.sampleRate, numSamples)]
        channelCount == Cardinality(chans)
    IN  [i \in 1 .. numSamples |->
            IF channelCount > 1 THEN sumOver(chans, rendered, i) \div channelCount
            ELSE sumOver(chans, rendered, i)]

\* The inner loop of renderPattern from sample i of the step on.
RECURSIVE writeStep(_, _, _, _, _, _)
writeStep(samples, stepSamples, currentSample, i, samplesPerStep, audioChannels) ==
    IF i >= samplesPerStep THEN samples
    ELSE LET outIndex == (currentSample + i) * audioChannels
         IN  IF outIndex >= Len(samples) THEN samples
             ELSE LET written ==
                          IF audioChannels = 1
                          THEN [samples EXCEPT ![outIndex + 1] = stepSamples[i + 1]]
                          ELSE [k \in DOMAIN samples |->
                                   IF k \in {outIndex + 1, outIndex + 2}
                                   THEN stepSamples[i + 1] ELSE samples[k]]
                  IN  writeStep(written, stepSamples, currentSample, i + 1,
                                samplesPerStep, audioChannels)

\* The outer loop of renderPattern from the given step on; the result is the
\* buffer and the position after the pattern.
RECURSIVE renderPatternFrom(_, _, _, _, _, _)
renderPatternFrom(pattern, samples, options, currentSample, samplesPerStep, step) ==
    IF step >= pattern.stepsCount
    THEN [samples |-> samples, currentSample |-> currentSample]
    ELSE LET stepSamples == renderStep(pattern, step, options, samplesPerStep)
             written == writeStep(samples, stepSamples, currentSample, 0,
                                  samplesPerStep, options.audioChannels)
         IN  renderPatternFrom(pattern, written, options,
                               currentSample + samplesPerStep, samplesPerStep, step + 1)

renderPattern(pattern, samples, options, song, startSample, stepDuration) ==
    LET samplesPerStep == floorSamples(stepDuration, options.sampleRate)
    IN  renderPatternFrom(pattern, samples, options, startSample, samplesPerStep, 0)

\* The loop of renderSamples over patternOrder from position i on.
RECURSIVE renderOrderFrom(_, _, _, _, _)
renderOrderFrom(song, options, samples, currentSample, i) ==
    IF i > Len(song.patternOrder) THEN samples
    ELSE LET found == findPattern(song, song.patternOrder[i])
         IN  IF found = <<>>
             THEN renderOrderFrom(song, options, samples, currentSample, i + 1)
             ELSE LET R == renderPattern(found[1], samples, options, song,
                                         currentSample, Exporter_getStepDuration(song))
                  IN  renderOrderFrom(song, options, R.samples, R.currentSample, i + 1)

\* renderSamples with a buffer as long as the steps it renders.
renderSamples_perStep(song, options, duration) ==
    LET samplesPerStep == floorSamples(Exporter_getStepDuration(song), options.sampleRate)
        numSamples == getTotalSteps(song) * samplesPerStep
        samples == [k \in 1 .. (numSamples * options.audioChannels) |-> 0]
    IN  renderOrderFrom(song, options, samples, 0, 1)

renderSamples(song, options, duration) ==
    LET numSamples == floorSamples(duration, options.sampleRate)
        samples == [k \in 1 .. (numSamples * options.audioChannels) |-> 0]
    IN  renderOrderFrom(song, options, samples, 0, 1)

\* The integer written for one sample at each bit depth.
quantize(sample, bitDepth) ==
    LET clamped == Max(0 - SampleUnit, Min(SampleUnit, sample))
    IN  CASE bitDepth = 8 -> (((clamped + SampleUnit) * 1275) \div (10 * SampleUnit)) % 256
          [] bitDepth = 16 -> (clamped * 32767) \div SampleUnit
          [] bitDepth = 24 -> (clamped * 8388) + ((clamped * 607) \div SampleUnit)
          [] bitDepth = 32 -> (clamped * 2147483) + ((clamped * 647) \div SampleUnit)

\* createWavFile with a data size that does not depend on the bit depth.
createWavFile_fixedWidth(samples, options) ==
    [byteLength |-> 44 + Len(samples), riffSize |-> 36 + Len(samples),
     numChannels |-> (options.audioChannels) % 65536,
     sampleRate |-> options.sampleRate,
     byteRate |-> options.sampleRate * options.audioChannels,
     blockAlign |-> (options.audioChannels) % 65536,
     bitsPerSample |-> (options.bitDepth) % 65536,
     dataSize |-> Len(samples),
     pcm |-> [k \in DOMAIN samples |-> quantize(samples[k], options.bitDepth)]]

\* The buffer: its length, the header fields and the value of each sample.
\* setUint16 keeps a value modulo 2^16 and setUint32 modulo 2^32; every
\* 32-bit field the model computes is non-negative and below 2^31, its own
\* residue.
createWavFile(samples, options) ==
    LET bytesPerSample == options.bitDepth \div 8
        dataSize == Len(samples) * bytesPerSample
        fileSize == 44 + dataSize
    IN  [byteLength |-> fileSize, riffSize |-> fileSize - 8,
         numChannels |-> (options.audioChannels) % 65536,
         sampleRate |-> options.sampleRate,
         byteRate |-> options.sampleRate * options.audioChannels * bytesPerSample,
         blockAlign |-> (options.audioChannels * bytesPerSample) % 65536,
         bitsPerSample |-> (options.bitDepth) % 65536,
         dataSize |-> dataSize,
         pcm |-> [k \in DOMAIN samples |-> quantize(samples[k], options.bitDepth)]]

\* export(song, options); samples is the rendered buffer the file encodes.
Exporter_export(song, options) ==
    LET duration == calculateDuration(song)
        samples == renderSamples(song, options, duration)
        wavData == createWavFile(samples, options)
    IN  [done |-> TRUE, data |-> wavData, duration |-> duration,
         size |-> wavData.byteLength, samples |-> samples]

-----------------------------------------------------------------------------
(* State machine *)

Commit(E, call, passedGuard) ==
    /\ state' = E.state
    /\ currentPattern' = E.currentPattern
    /\ currentSong' = E.currentSong
    /\ patternMap' = E.patternMap
    /\ bpm' = E.bpm
    /\ currentStep' = E.currentStep
    /\ startTime' = E.startTime
    /\ pauseTime' = E.pauseTime
    /\ scheduleInterval' = E.scheduleInterval
    /\ totalLoops' = E.totalLoops
    /\ currentLoop' = E.currentLoop
    /\ onCompleteCallback' = E.onCompleteCallback
    /\ liveTimers' = E.liveTimers
    /\ voices' = E.voices
    /\ completeCalls' = E.completeCalls
    /\ played' = E.played
    /\ songFinished' = E.songFinished
    /\ iterations' = E.iterations
    /\ error' = E.error
    /\ hung' = E.hung
    /\ sessionKind' = E.sessionKind
    /\ sessionSong' = E.sessionSong
    /\ sessions' = E.sessions
    /\ lastCall' = IF passedGuard THEN call ELSE lastCall
    /\ triggered' = E.triggered
    /\ now' = now
    /\ UNCHANGED <<synthVars, mixerVars, editorVars, composerVars, exportVars>>

Init ==
    /\ state = "stopped"
    /\ currentPattern = NullPattern
    /\ currentSong = NullSong
    /\ patternMap = EmptyMap
    /\ bpm = 120
    /\ currentStep = 0
    /\ startTime = 0
    /\ pauseTime = 0
    /\ scheduleInterval = FALSE
    /\ totalLoops = 1
    /\ currentLoop = 0
    /\ onCompleteCallback = FALSE
    /\ now = 0
    /\ liveTimers = 0
    /\ voices = {}
    /\ completeCalls = 0
    /\ played = <<>>
    /\ songFinished = FALSE
    /\ iterations = 0
    /\ error = "none"
    /\ hung = FALSE
    /\ sessionKind = "none"
    /\ sessionSong = NullSong
    /\ sessions = 0
    /\ lastCall = "none"
    /\ triggered = <<>>
    /\ channelWaveforms = [c \in {} |-> configWaveform]
    /\ activeVoices = [c \in {} |-> <<>>]
    /\ oscillators = <<>>
    /\ synthError = "none"
    /\ channels = ChannelMixer(FullVolume).channels
    /\ wired = {}
    /\ disconnected = {}
    /\ mixerError = "none"
    /\ masterGain = ChannelMixer(FullVolume).masterGain
    /\ editedPattern = EmptyPattern
    /\ editorError = NoError
    /\ editorCall = "none"
    /\ composerSong = Song("S", 120, 1, <<>>)
    /\ composerError = "none"
    /\ composerCall = "none"
    /\ exportSong = ExportSongOf(120, <<>>, <<>>, 1)
    /\ exportOptions = [sampleRate |-> 20, bitDepth |-> 8, audioChannels |-> 1]
    /\ exportResult =
          [done |-> FALSE,
           data |-> createWavFile(<<>>, [sampleRate |-> 0, bitDepth |-> 8,
                                         audioChannels |-> 0]),
           duration |-> [num |-> 0, den |-> 1], size |-> 0, samples |-> <<>>]

Start ==
    /\ ~hung
    /\ state = "playing" \/ sessions < MaxSessions
    /\ \E pattern \in {PatA, PatB}, newBpm \in BPMs :
          \E R \in {start(Eng, pattern, newBpm, now)} : Commit(R, "start", state # "playing")

StartSong ==
    /\ ~hung
    /\ state = "playing" \/ sessions < MaxSessions
    /\ \E song \in Songs, patterns \in { <<PatA, PatB>> } :
          \E R \in {startSong(Eng, song, patterns, now)} : Commit(R, "startSong", state # "playing")

Stop ==
    /\ ~hung
    /\ \E R \in {stop(Eng)} : Commit(R, "stop", TRUE)

Pause ==
    /\ ~hung
    /\ \E R \in {pause(Eng, now)} : Commit(R, "pause", state = "playing")

Resume ==
    /\ ~hung
    /\ \E R \in {resume(Eng, now)} : Commit(R, "resume", state = "paused")

UpdatePattern ==
    /\ ~hung
    /\ \E pattern \in UpdatedPatterns :
          \E R \in {updatePattern(Eng, pattern)} : Commit(R, "updatePattern", FALSE)

OnComplete ==
    /\ ~hung
    /\ ~onCompleteCallback
    /\ \E R \in {onComplete(Eng)} : Commit(R, "onComplete", FALSE)

\* One firing of the setInterval timer.
Tick ==
    /\ ~hung
    /\ liveTimers > 0
    /\ \E R \in {timerCallback(Eng, now)} : Commit(R, "tick", FALSE)

\* The audio clock advances; oscillators whose stop time has passed end.
Advance ==
    /\ ~hung
    /\ now + SCHEDULE_INTERVAL <= MaxTicks * SCHEDULE_INTERVAL
    /\ now' = now + SCHEDULE_INTERVAL
    /\ voices' = {v \in voices : v.endless \/ v.stop > now'}
    /\ UNCHANGED <<state, currentPattern, currentSong, patternMap, bpm,
                   currentStep, startTime, pauseTime, scheduleInterval,
                   totalLoops, currentLoop, onCompleteCallback, liveTimers,
                   completeCalls, played, songFinished, iterations, error,
                   hung, sessionKind, sessionSong, sessions, lastCall,
                   triggered, synthVars, mixerVars, editorVars, composerVars,
                   exportVars>>

Next ==
    \/ Start
    \/ StartSong
    \/ Stop
    \/ Pause
    \/ Resume
    \/ UpdatePattern
    \/ OnComplete
    \/ Tick
    \/ Advance

Spec == Init /\ [][Next]_vars

engineVars == <<state, currentPattern, currentSong, patternMap, bpm,
                currentStep, startTime, pauseTime, scheduleInterval,
                totalLoops, currentLoop, onCompleteCallback, now, liveTimers,
                voices, completeCalls, played, songFinished, iterations,
                error, hung, sessionKind, sessionSong, sessions, lastCall,
                triggered>>

SynthCommit(S) ==
    /\ channelWaveforms' = S.channelWaveforms
    /\ activeVoices' = S.activeVoices
    /\ oscillators' = S.oscillators
    /\ synthError' = S.synthError
    /\ UNCHANGED <<engineVars, mixerVars, editorVars, composerVars, exportVars>>

PlayNoteOn(channelIndex, rejected) ==
    /\ Len(oscillators) < MaxVoices
    /\ SynthCommit(Synthesizer_playNote(Syn, channelIndex, rejected))

StopChannelOn(channelIndex) == SynthCommit(stopChannel(Syn, channelIndex))

StopAll == SynthCommit(stopAll(Syn))

SetWaveformOn(channelIndex, waveform) ==
    SynthCommit(setWaveform(Syn, channelIndex, waveform))

\* The 'ended' event of an oscillator that has not ended yet: its stop time
\* was reached, or stopChannel / stopAll stopped it.
Ended == \E osc \in DOMAIN oscillators :
            /\ oscillators[osc].status # "ended"
            /\ SynthCommit(onEnded(Syn, osc))

SynthNext ==
    \/ \E channelIndex \in SynthChannels, rejected \in BOOLEAN :
          PlayNoteOn(channelIndex, rejected)
    \/ \E channelIndex \in SynthChannels : StopChannelOn(channelIndex)
    \/ StopAll
    \/ \E channelIndex \in SynthChannels, waveform \in Waveforms :
          SetWaveformOn(channelIndex, waveform)
    \/ Ended

SynthSpec == Init /\ [][SynthNext]_vars

MixerCommit(M) ==
    /\ channels' = M.channels
    /\ wired' = M.wired
    /\ disconnected' = M.disconnected
    /\ mixerError' = M.mixerError
    /\ masterGain' = M.masterGain
    /\ UNCHANGED <<engineVars, synthVars, editorVars, composerVars, exportVars>>

ConnectChannelAt(channelIndex, node) ==
    MixerCommit(connectChannel(Mix, channelIndex, node))

DisconnectChannelAt(channelIndex) ==
    MixerCommit(disconnectChannel(Mix, channelIndex))

SetMasterVolumeTo(volume) == MixerCommit(setMasterVolume(Mix, volume))

\* The mixer is replaced by one constructed with another configured volume.
Construct == \E masterVolume \in MasterVolumes :
                 MixerCommit(ChannelMixer(masterVolume))

MixerNext ==
    \/ \E channelIndex \in MixerIndices, node \in Nodes :
          ConnectChannelAt(channelIndex, node)
    \/ \E channelIndex \in MixerIndices : DisconnectChannelAt(channelIndex)
    \/ \E volume \in MasterVolumes : SetMasterVolumeTo(volume)
    \/ Construct

MixerSpec == Init /\ [][MixerNext]_vars

\* playNote of a synthesizer constructed with the mixer's connectChannel as
\* its connectToMixer callback: the gain node of the new oscillator is
\* connected to the channel, and playNote is rejected when connectChannel
\* throws.
PlayNoteWired ==
    /\ Len(oscillators) < MaxVoices
    /\ \E channelIndex \in MixerIndices :
          LET M == connectChannel(Mix, channelIndex, [gainOf |-> Len(oscillators) + 1])
              S == Synthesizer_playNote(Syn, channelIndex, M.mixerError # "none")
          IN  /\ channelWaveforms' = S.channelWaveforms
              /\ activeVoices' = S.activeVoices
              /\ oscillators' = S.oscillators
              /\ synthError' = S.synthError
              /\ channels' = M.channels
              /\ wired' = M.wired
              /\ disconnected' = M.disconnected
              /\ mixerError' = M.mixerError
              /\ masterGain' = M.masterGain
    /\ UNCHANGED <<engineVars, editorVars, composerVars, exportVars>>

\* The synthesizer and the mixer wired together.
WiringNext ==
    \/ PlayNoteWired
    \/ \E channelIndex \in SynthChannels : StopChannelOn(channelIndex)
    \/ StopAll
    \/ Ended
    \/ \E channelIndex \in MixerIndices : DisconnectChannelAt(channelIndex)

WiringSpec == Init /\ [][WiringNext]_vars

\* Patterns of more than MaxNotes notes are not explored.
EditorCommit(D, call) ==
    /\ noteCount(D.pattern, 1) <= MaxNotes
    /\ editedPattern' = D.pattern
    /\ editorError' = D.error
    /\ editorCall' = call
    /\ UNCHANGED <<engineVars, synthVars, mixerVars, composerVars, exportVars>>

\* new Pattern(id, name, stepCount, steps): the steps array is taken as given.
ConstructPattern ==
    \E P \in {EmptyPattern, Pattern("P", 2, << <<NoteC>> >>)} :
        EditorCommit([pattern |-> P, error |-> NoError], "new Pattern")

AddNoteAtStep == \E stepPosition \in EditorStepIndices, note \in EditorNotes :
                     EditorCommit(addNoteAtStep(editedPattern, stepPosition, note),
                                  "addNoteAtStep")

RemoveNoteAtStep == \E stepPosition \in EditorStepIndices, channel \in {0, 1} :
                        EditorCommit(removeNoteAtStep(editedPattern, stepPosition, channel),
                                     "removeNoteAtStep")

EditorAddNoteAt(stepIndex, channelIndex, note) ==
    EditorCommit(Editor_addNote(Ed, stepIndex, channelIndex, note), "addNote")

EditorRemoveNoteAt(stepIndex, channelIndex) ==
    EditorCommit(Editor_removeNote(Ed, stepIndex, channelIndex), "removeNote")

EditorMoveNoteAt(sourceStep, sourceChannel, targetStep, targetChannel) ==
    EditorCommit(Editor_moveNote(Ed, sourceStep, sourceChannel, targetStep, targetChannel),
                 "moveNote")

\* clear() builds stepCount empty steps.
EditorClear ==
    EditorCommit([Ed EXCEPT !.pattern.steps = [i \in 1 .. Ed.pattern.stepCount |-> <<>>]],
                 "clear")

EditorNext ==
    \/ ConstructPattern
    \/ AddNoteAtStep
    \/ RemoveNoteAtStep
    \/ \E stepIndex \in EditorStepIndices, channelIndex \in EditorChannelIndices,
          note \in EditorNotes :
          EditorAddNoteAt(stepIndex, channelIndex, note)
    \/ \E stepIndex \in EditorStepIndices, channelIndex \in EditorChannelIndices :
          EditorRemoveNoteAt(stepIndex, channelIndex)
    \/ \E sourceStep \in EditorStepIndices, sourceChannel \in EditorChannelIndices,
          targetStep \in EditorStepIndices, targetChannel \in EditorChannelIndices :
          EditorMoveNoteAt(sourceStep, sourceChannel, targetStep, targetChannel)
    \/ EditorClear

EditorSpec == Init /\ [][EditorNext]_vars

ComposerCommit(C, call) ==
    /\ composerSong' = C.song
    /\ composerError' = C.error
    /\ composerCall' = call
    /\ UNCHANGED <<engineVars, synthVars, mixerVars, editorVars, exportVars>>

\* new SongComposer(new Song(id, name, bpm, repeatCount)): when the Song
\* constructor throws, no new composer exists and the old one stays.
ConstructSong == \E songBpm \in SongBpms, repeatCount \in RepeatCounts :
                     ComposerCommit(assignSong(Comp, songBpm, repeatCount, <<>>), "new Song")

AddPattern ==
    /\ Len(composerSong.patternSequence) < MaxSequence
    /\ \E entry \in Entries : ComposerCommit(Composer_addPattern(Comp, entry), "addPattern")

InsertPattern ==
    /\ Len(composerSong.patternSequence) < MaxSequence
    /\ \E position \in Positions, entry \in Entries :
          ComposerCommit(insertPattern(Comp, position, entry), "insertPattern")

RemovePattern == \E position \in Positions :
                     ComposerCommit(removePattern(Comp, position), "removePattern")

MovePattern == \E fromPosition \in Positions, toPosition \in Positions :
                   ComposerCommit(movePattern(Comp, fromPosition, toPosition), "movePattern")

SetRepeatCountTo(repeatCount) ==
    ComposerCommit(setRepeatCount(Comp, repeatCount), "setRepeatCount")

SetBPM == \E newBpm \in SongBpms : ComposerCommit(setBPM(Comp, newBpm), "setBPM")

ComposerClear ==
    ComposerCommit(assignSong(Comp, Comp.song.bpm, Comp.song.repeatCount, <<>>), "clear")

ComposerNext ==
    \/ ConstructSong
    \/ AddPattern
    \/ InsertPattern
    \/ RemovePattern
    \/ MovePattern
    \/ \E repeatCount \in RepeatCounts : SetRepeatCountTo(repeatCount)
    \/ SetBPM
    \/ ComposerClear

ComposerSpec == Init /\ [][ComposerNext]_vars

\* The exporter keeps nothing between calls: one call is explored from the
\* initial state.
Export ==
    /\ ~exportResult.done
    /\ \E song \in ExportSongs, options \in ExportOptionsSet :
          /\ exportSong' = song
          /\ exportOptions' = options
          /\ exportResult' = Exporter_export(song, options)
    /\ UNCHANGED <<engineVars, synthVars, mixerVars, editorVars, composerVars>>

ExportSpec == Init /\ [][Export]_vars

-----------------------------------------------------------------------------
(* Claims *)

\* The step sequence startSong is specified to play: every entry of the
\* pattern sequence repeat times, the whole sequence repeatCount times.
RECURSIVE Repeated(_, _)
Repeated(seq, n) == IF n = 0 THEN <<>> ELSE seq \o Repeated(seq, n - 1)

RECURSIVE SequenceOnce(_)
SequenceOnce(entries) ==
    IF entries = <<>> THEN <<>>
    ELSE Repeated(<<Head(entries).patternId>>, Head(entries).repeat)
            \o SequenceOnce(Tail(entries))

ExpectedPlay(song) == Repeated(SequenceOnce(song.patternSequence), song.repeatCount)

\* C1: every scheduleNotes call terminates, having triggered at most
\* MaxIterations (100) steps.
C1_TickBounded == ~hung /\ iterations <= MaxIterations

\* C2: in standalone playback a timer tick that wraps the playhead advances
\* startTime by stepCount * stepDuration for every increment of the loop
\* counter.
C2_WrapAdvancesStartTime ==
    [][(Tick /\ currentSong = NullSong /\ currentLoop' # currentLoop)
         => (startTime' - startTime =
                (currentLoop' - currentLoop) * currentPattern.stepCount
                    * getStepDuration(Eng))]_vars

\* C3: when song playback ends by exhausting its loops, the engine is Stopped
\* and the pattern passes played are exactly the song's sequence, each entry
\* repeat times, the whole repeatCount times.
C3_SongFollowsSequence ==
    (songFinished /\ sessionKind = "song")
        => (state = "stopped" /\ played = ExpectedPlay(sessionSong))

\* C4: the onComplete callback is invoked at most once per session and only
\* in a session begun by startSong.
C4_CompleteOnlyForSong ==
    /\ completeCalls <= 1
    /\ completeCalls = 1 => sessionKind = "song"

\* C5: stop() never throws and leaves state Stopped, playhead 0, loop counter
\* 0, no timer and an empty pattern table; a second stop() changes nothing.
C5_StopResets ==
    [][Stop => /\ state' = "stopped"
               /\ currentStep' = 0
               /\ currentLoop' = 0
               /\ ~scheduleInterval'
               /\ liveTimers' = 0
               /\ patternMap' = EmptyMap
               /\ error' = "none"
               /\ stop(Eng') = Eng']_vars

C5_Witness ==
    /\ lastCall = "stop"
    /\ state = "stopped"
    /\ sessionKind = "song"
    /\ played = <<>>
    /\ voices # {}

\* C6: once stop() has been called, no sound the engine scheduled is still
\* sounding or still due to start, and nothing is triggered until the next
\* start.
C6_NoOrphanedVoices ==
    lastCall = "stop" => (\A v \in voices : v.stop <= now) /\ liveTimers = 0

NoOp ==
    /\ UNCHANGED <<state, currentStep, startTime, currentLoop,
                   scheduleInterval, liveTimers, pauseTime>>
    /\ error' = "none"

PauseEffect ==
    IF state = "playing"
    THEN state' = "paused" /\ ~scheduleInterval' /\ liveTimers' = 0
            /\ pauseTime' = now
    ELSE NoOp

\* C7 as stated: pause() acts only in Playing (to Paused, timer cancelled,
\* pause mark recorded), resume() only in Paused (to Playing, timer
\* restarted); otherwise each is a no-op that does not throw.
C7_PauseResumeGuards ==
    [][/\ Pause => PauseEffect
       /\ Resume => IF state = "paused"
                    THEN state' = "playing" /\ scheduleInterval'
                            /\ liveTimers' = 1
                    ELSE NoOp]_vars

\* C7 amended: as C7, except that the scheduling pass resume() runs may
\* itself exhaust the song's loops, and then resume() ends in Stopped with no
\* timer.
C7_PauseResumeGuardsAmended ==
    [][/\ Pause => PauseEffect
       /\ Resume => IF state = "paused"
                    THEN \/ state' = "playing" /\ scheduleInterval'
                                /\ liveTimers' = 1
                         \/ songFinished' /\ state' = "stopped"
                                /\ ~scheduleInterval' /\ liveTimers' = 0
                    ELSE NoOp]_vars

C7_Witness ==
    /\ lastCall = "resume"
    /\ songFinished
    /\ state = "stopped"

\* C8: pause() keeps the step index and startTime and records the pause
\* mark; nothing moves them while Paused; resume() adds exactly the pause
\* duration to startTime and its scheduling pass continues from the preserved
\* step index (the playhead moves by exactly the number of steps triggered).
C8_PauseResumeShift ==
    [][/\ (state = "playing" /\ Pause)
            => UNCHANGED <<currentStep, startTime>> /\ pauseTime' = now
       /\ (state = "paused" /\ state' = "paused")
            => UNCHANGED <<currentStep, startTime, pauseTime>>
       /\ (state = "paused" /\ Resume)
            => /\ startTime' = startTime + (now - pauseTime)
               /\ (state' = "playing" /\ error' = "none")
                    => currentStep' + currentLoop' * currentPattern.stepCount
                          = currentStep + currentLoop * currentPattern.stepCount
                                + iterations']_vars

C8_Witness ==
    /\ lastCall = "resume"
    /\ state = "playing"
    /\ sessions = 1
    /\ \E v \in voices : v.start < startTime

\* Everything the engine object itself stores (the fields of the class).
engineFields == <<state, currentPattern, currentSong, patternMap, bpm,
                  currentStep, startTime, pauseTime, scheduleInterval,
                  totalLoops, currentLoop, onCompleteCallback>>

\* C9: start() while Playing changes nothing and creates no timer; otherwise
\* it captures startTime = now, enters Playing with one timer, and its
\* scheduling pass counts steps from playhead 0 and loop counter 0.
C9_StartIdempotent ==
    [][Start => IF state = "playing"
                THEN UNCHANGED <<engineFields, liveTimers>>
                ELSE /\ startTime' = now
                     /\ state' = "playing"
                     /\ scheduleInterval' /\ liveTimers' = 1
                     /\ currentStep' + currentLoop' * currentPattern'.stepCount
                            = iterations']_vars

\* C10: no session is ever begun for a song whose pattern sequence is empty,
\* and the engine is never Playing such a song.
C10_EmptySongRejected ==
    /\ sessionKind = "song" => Len(sessionSong.patternSequence) > 0
    /\ (state = "playing" /\ currentSong # NullSong)
            => Len(currentSong.patternSequence) > 0

\* The notes of a pattern, as (pitch, channel) pairs.
NotesOf(pattern) ==
    {[pitch |-> pattern.steps[i][j].pitch, channel |-> pattern.steps[i][j].channel] :
        <<i, j>> \in {<<i, j>> \in (1..Len(pattern.steps)) \X (1..3) :
                        j <= Len(pattern.steps[i])}}

\* C11: updatePattern replaces the pattern by the whole new value and leaves
\* playback state, playhead, startTime, loop counter and timer as they were;
\* every note a timer tick triggers belongs to the one pattern the engine
\* held when the tick began.
C11_UpdatePatternKeepsPlayback ==
    [][/\ UpdatePattern
            => /\ UNCHANGED <<state, currentStep, startTime, currentLoop,
                              scheduleInterval, liveTimers>>
               /\ currentPattern' \in UpdatedPatterns
               /\ error' = "none"
       /\ (voices' \ voices # {} /\ Tick)
            => \A v \in voices' \ voices :
                  [pitch |-> v.pitch, channel |-> v.channel] \in NotesOf(currentPattern)]_vars

C11_Witness ==
    /\ state = "playing"
    /\ ~hung /\ error = "none"
    /\ sessions = 1 /\ sessionKind = "pattern"
    /\ currentPattern = PatA2
    /\ currentStep = 2
    /\ \E v \in voices : v.pitch = "C4" /\ v.start = startTime + getStepDuration(Eng)

\* C12: updatePattern replaces the pattern being played only by a pattern of
\* the same id, and in the lookup table it changes no entry other than the
\* one of the given pattern's id.
C12_SwapsOnlyById ==
    [][UpdatePattern
         => /\ (state = "playing" /\ currentPattern # NullPattern
                    /\ currentPattern' # currentPattern)
                 => currentPattern'.id = currentPattern.id
            /\ DOMAIN patternMap' = DOMAIN patternMap
            /\ \A k \in DOMAIN patternMap :
                  patternMap'[k] # patternMap[k]
                     => \E p \in UpdatedPatterns : p.id = k /\ patternMap'[k] = p]_vars

\* The step the playhead is on is due within the look-ahead window.
StepDue ==
    /\ state = "playing"
    /\ currentPattern # NullPattern
    /\ currentStep < currentPattern.stepCount
    /\ currentStep < Len(currentPattern.steps)
    /\ getNextNoteTime(Eng) < now + SCHEDULE_AHEAD_TIME

\* C13: a timer tick whose due step holds a malformed note returns normally,
\* has triggered every well-formed note of that step, has moved the playhead
\* off the step and leaves the engine Playing.
C13_SkipMalformedNote ==
    [][(Tick /\ StepDue
           /\ \E n \in 1..Len(currentPattern.steps[currentStep + 1]) :
                  currentPattern.steps[currentStep + 1][n].duration = NaN)
         => /\ error' = "none"
            /\ state' = "playing"
            /\ currentStep' # currentStep
            /\ \A n \in 1..Len(currentPattern.steps[currentStep + 1]) :
                  LET note == currentPattern.steps[currentStep + 1][n]
                  IN  note.duration # NaN
                        => \E v \in voices' : /\ v.pitch = note.pitch
                                               /\ v.channel = note.channel
                                               /\ v.start = getNextNoteTime(Eng)]_vars

\* C14: the notes of one step are triggered in ascending channel order.
C14_AscendingChannelOrder ==
    \A i, j \in 1..Len(triggered) : i < j => triggered[i] <= triggered[j]

\* The oscillators tracked under a channel.
Tracked(S, channelIndex) == Range(GetOr(S.activeVoices, channelIndex, <<>>))

\* C15: a voice is tracked under its own channel, once, exactly from the
\* playNote that started it until it stops sounding (force-stopped, or ended
\* with its 'ended' event); so once every voice has ended no channel tracks
\* anything, whatever the order of the calls and events.
C15_VoicesTracked ==
    /\ \A osc \in DOMAIN oscillators : \A c \in SynthChannels :
          osc \in Tracked(Syn, c)
             <=> (oscillators[osc].status = "scheduled"
                    /\ oscillators[osc].channelIndex = c)
    /\ \A c \in DOMAIN activeVoices :
          /\ Range(activeVoices[c]) \subseteq DOMAIN oscillators
          /\ Len(activeVoices[c]) = Cardinality(Range(activeVoices[c]))
    /\ (\A osc \in DOMAIN oscillators : oscillators[osc].status = "ended")
          => \A c \in DOMAIN activeVoices : activeVoices[c] = <<>>

C15_Witness ==
    /\ Len(oscillators) = 2
    /\ oscillators[1].status = "ended"
    /\ oscillators[2].status = "ended"
    /\ oscillators[1].channelIndex = oscillators[2].channelIndex
    /\ DOMAIN activeVoices # {}

\* C16: stopChannel(c) stops every voice tracked on c, leaves nothing tracked
\* on c and leaves the other channels' tracking as it was; stopAll() stops
\* every tracked voice and leaves nothing tracked; neither throws, and a
\* second identical call changes nothing.
C16_StopChannelStopAll ==
    [][/\ \A c \in SynthChannels :
            StopChannelOn(c)
              => /\ Tracked(Syn', c) = {}
                 /\ \A osc \in Tracked(Syn, c) : oscillators'[osc].status # "scheduled"
                 /\ \A d \in SynthChannels \ {c} :
                       GetOr(activeVoices', d, <<>>) = GetOr(activeVoices, d, <<>>)
                 /\ synthError' = "none"
                 /\ stopChannel(Syn', c) = Syn'
       /\ StopAll
              => /\ \A c \in SynthChannels : Tracked(Syn', c) = {}
                 /\ \A osc \in DOMAIN oscillators' : oscillators'[osc].status # "scheduled"
                 /\ synthError' = "none"
                 /\ stopAll(Syn') = Syn']_vars

C16_Witness ==
    /\ Len(oscillators) = 2
    /\ oscillators[1].status = "stopped"
    /\ oscillators[2].status = "scheduled"
    /\ oscillators[1].channelIndex # oscillators[2].channelIndex
    /\ Tracked(Syn, oscillators[1].channelIndex) = {}
    /\ Tracked(Syn, oscillators[2].channelIndex) = {2}

\* The waveform playNote gives to a new voice on a channel.
WaveformOf(S, channelIndex) == GetOr(S.channelWaveforms, channelIndex, configWaveform)

\* C17: setWaveform(c, w) makes w the waveform of the voices playNote creates
\* on channel c from then on, and changes neither the waveform of any other
\* channel nor that of an existing voice; a channel without an override uses
\* the configured default.
C17_SetWaveformScope ==
    [][/\ \A c \in SynthChannels, w \in Waveforms :
            SetWaveformOn(c, w)
              => /\ WaveformOf(Syn', c) = w
                 /\ \A d \in SynthChannels \ {c} : WaveformOf(Syn', d) = WaveformOf(Syn, d)
                 /\ oscillators' = oscillators
       /\ \A c \in SynthChannels :
            PlayNoteOn(c, FALSE)
              => /\ Len(oscillators') = Len(oscillators) + 1
                 /\ oscillators'[Len(oscillators')].type = WaveformOf(Syn, c)
                 /\ c \notin DOMAIN channelWaveforms
                       => oscillators'[Len(oscillators')].type = configWaveform
       /\ \A osc \in DOMAIN oscillators :
            oscillators'[osc].type = oscillators[osc].type]_vars

C17_Witness ==
    /\ Len(oscillators) = 2
    /\ oscillators[1].channelIndex = oscillators[2].channelIndex
    /\ oscillators[1].type = configWaveform
    /\ oscillators[2].type = "sawtooth"
    /\ \E d \in SynthChannels : d \notin DOMAIN channelWaveforms

\* C18: connectChannel throws and changes nothing for every index below 0
\* or at or above maxChannels, and for every index in between it returns
\* normally with the node recorded under that channel; isChannelAvailable is
\* true for exactly the latter indices.
C18_ConnectRange ==
    [][\A i \in MixerIndices, n \in Nodes :
         ConnectChannelAt(i, n)
           => IF 0 <= i /\ i <= MaxChannels - 1
              THEN /\ mixerError' = "none"
                   /\ n \in channels'[i]
                   /\ isChannelAvailable(i)
              ELSE /\ mixerError' = "Error"
                   /\ UNCHANGED <<channels, wired>>
                   /\ getActiveChannelCount(Mix') = getActiveChannelCount(Mix)
                   /\ ~isChannelAvailable(i)]_vars

C18_Witness ==
    /\ mixerError = "Error"
    /\ \E i \in DOMAIN channels : channels[i] # {}

\* C19: getActiveChannelCount() is the number of channel indices with at
\* least one connected node, however many nodes each has, and never exceeds
\* maxChannels.
C19_ActiveChannelCount ==
    /\ DOMAIN channels = 0 .. (MaxChannels - 1)
    /\ getActiveChannelCount(Mix) = Cardinality({i \in DOMAIN channels : channels[i] # {}})
    /\ getActiveChannelCount(Mix) <= MaxChannels

C19_Witness ==
    /\ getActiveChannelCount(Mix) = 1
    /\ \E i \in DOMAIN channels : Cardinality(channels[i]) >= 2

\* C20: disconnectChannel(index) empties the tracked nodes of that channel,
\* leaves the tracked nodes of every other channel as they were and does not
\* throw; on a channel without nodes (or an index without a channel) it
\* changes nothing.
C20_DisconnectScope ==
    [][\A i \in MixerIndices :
         DisconnectChannelAt(i)
           => /\ mixerError' = "none"
              /\ i \in DOMAIN channels => channels'[i] = {}
              /\ \A j \in DOMAIN channels \ {i} : channels'[j] = channels[j]
              /\ DOMAIN channels' = DOMAIN channels
              /\ (i \notin DOMAIN channels \/ channels[i] = {})
                    => UNCHANGED <<channels, wired>>]_vars

C20_Witness ==
    /\ disconnected # {}
    /\ \E j \in DOMAIN channels : channels[j] # {}
    /\ getActiveChannelCount(Mix) < MaxChannels

\* C21: setMasterVolume(v) leaves the master gain at v clamped into [0, 1],
\* and the master gain lies in [0, 1] in every reachable state of the mixer,
\* the state right after construction with the configured masterVolume
\* included.
C21_MasterGainInRange ==
    /\ [](masterGain >= 0 /\ masterGain <= FullVolume)
    /\ [][\A volume \in MasterVolumes :
             SetMasterVolumeTo(volume)
                 => masterGain' = Max(0, Min(FullVolume, volume))]_vars

\* A step of the edited pattern holds at most one note on each channel.
OneNotePerChannel(P) ==
    \A i \in DOMAIN P.steps : \A j, k \in DOMAIN P.steps[i] :
        P.steps[i][j].channel = P.steps[i][k].channel => j = k

\* C22: after any sequence of note additions and removals through
\* Step.addNote, Pattern.addNoteAtStep or PatternEditor.addNote, a Step holds
\* at most one note per channel: adding on an occupied channel replaces.
C22_OneNotePerChannel == OneNotePerChannel(editedPattern)

\* C23: every Pattern value, constructed directly with a steps array or
\* produced by the Pattern and PatternEditor operations, holds exactly
\* stepCount steps, so that getStep(i) returns a Step for every i in
\* [0, stepCount).
C23_ExactlyStepCountSteps ==
    /\ Len(editedPattern.steps) = editedPattern.stepCount
    /\ \A i \in 0 .. (editedPattern.stepCount - 1) : isDefinedStep(editedPattern, i)

\* The notes a pattern holds at a step on a channel.
Cell(P, stepIndex, channelIndex) ==
    IF isDefinedStep(P, stepIndex)
    THEN SelectSeq(P.steps[stepIndex + 1], LAMBDA note : note.channel = channelIndex)
    ELSE <<>>

ChannelInRange(channelIndex) == channelIndex >= 0 /\ channelIndex < maxChannels
StepInRange(P, stepIndex) == stepIndex >= 0 /\ stepIndex < P.stepCount

\* The exception names one of the given out-of-range indices.
NamesOneOf(err, indices) ==
    /\ err.kind \in {"Channel exceeds pattern channel limit", "Channel is negative",
                     "Step is out of bounds", "Step is negative"}
    /\ err.index \in indices

\* C25: addNote, removeNote and moveNote of the PatternEditor reject every
\* channel index outside [0, maxChannels) and every step index outside
\* [0, stepCount) with an error that names the offending index, and a
\* rejected operation, moveNote from an empty source cell included, leaves
\* the edited pattern exactly as it was before the call.
C25_RejectsAndLeavesUnchanged ==
    [][/\ \A st \in EditorStepIndices, ch \in EditorChannelIndices :
            LET bad == {i \in {ch} : ~ChannelInRange(i)}
                           \cup {i \in {st} : ~StepInRange(editedPattern, i)}
                Outcome == /\ bad # {} => NamesOneOf(editorError', bad)
                           /\ editorError' # NoError => editedPattern' = editedPattern
            IN  /\ EditorRemoveNoteAt(st, ch) => Outcome
                /\ \A note \in EditorNotes : EditorAddNoteAt(st, ch, note) => Outcome
       /\ \A st \in EditorStepIndices, ch \in EditorChannelIndices,
             tst \in EditorStepIndices, tch \in EditorChannelIndices :
            LET bad == {i \in {ch, tch} : ~ChannelInRange(i)}
                           \cup {i \in {st, tst} : ~StepInRange(editedPattern, i)}
            IN  EditorMoveNoteAt(st, ch, tst, tch)
                    => /\ bad # {} => NamesOneOf(editorError', bad)
                       /\ editorError' # NoError => editedPattern' = editedPattern]_vars

\* C26: a successful moveNote(srcStep, srcCh, dstStep, dstCh) leaves the
\* source cell empty unless source and target are the same cell, places a
\* note with the moved note's pitch and duration at the target cell on
\* channel dstCh in place of whatever was there, and leaves every other cell
\* of the pattern unchanged.
C26_MoveNoteEffect ==
    [][(editorCall' = "moveNote" /\ editorError' = NoError)
        => \A st \in EditorStepIndices, ch \in EditorChannelIndices,
             tst \in EditorStepIndices, tch \in EditorChannelIndices :
          (/\ StepInRange(editedPattern, st) /\ StepInRange(editedPattern, tst)
           /\ ChannelInRange(ch) /\ ChannelInRange(tch)
           /\ EditorMoveNoteAt(st, ch, tst, tch))
            => LET moved == getNoteForChannel(editedPattern.steps[st + 1], ch)
               IN  /\ <<st, ch>> # <<tst, tch>> => Cell(editedPattern', st, ch) = <<>>
                   /\ Cell(editedPattern', tst, tch)
                          = <<Note(moved.pitch, moved.duration, tch)>>
                   /\ \A i \in 0 .. (editedPattern.stepCount - 1),
                         c \in 0 .. (maxChannels - 1) :
                          (<<i, c>> # <<st, ch>> /\ <<i, c>> # <<tst, tch>>)
                             => Cell(editedPattern', i, c) = Cell(editedPattern, i, c)
                   /\ editedPattern'.stepCount = editedPattern.stepCount
                   /\ Len(editedPattern'.steps) = Len(editedPattern.steps)]_vars

\* A note was moved from step 0 to step 1, onto a channel it was not on.
C26_Witness ==
    /\ editorCall = "moveNote"
    /\ editorError = NoError
    /\ Len(editedPattern.steps) = editedPattern.stepCount
    /\ editedPattern.steps[1] = <<>>
    /\ editedPattern.steps[2] = <<Note("C4", 1, 1)>>

\* C24: every Song reachable through construction and SongComposer
\* operations, successful or failing, has bpm > 0 and a positive finite
\* repeatCount; repeat counts of 0, negative and infinite are rejected and
\* leave the composer's song unchanged; and validateFiniteLoop() is false
\* exactly when the pattern sequence is empty.
C24_SongAlwaysValid ==
    /\ [](/\ greaterThan(composerSong.bpm, 0)
          /\ greaterThan(composerSong.repeatCount, 0)
          /\ isFinite(composerSong.repeatCount)
          /\ ~validateFiniteLoop(Comp) <=> composerSong.patternSequence = <<>>)
    /\ [][\A repeatCount \in RepeatCounts :
             (SetRepeatCountTo(repeatCount)
                 /\ (repeatCount <= 0 \/ repeatCount = Infinity))
               => composerError' # "none" /\ composerSong' = composerSong]_vars

\* The steps a song plays: the step counts of the patterns of patternOrder
\* that the song holds, the whole order repeatCount times.
PlayedPatterns(song) ==
    [i \in {k \in DOMAIN song.patternOrder :
                \E j \in DOMAIN song.patterns : song.patterns[j].id = song.patternOrder[k]}
        |-> LET j == CHOOSE j \in DOMAIN song.patterns :
                         song.patterns[j].id = song.patternOrder[i]
            IN  song.patterns[j]]

RECURSIVE StepsOf(_, _)
StepsOf(playedPatterns, positions) ==
    IF positions = {} THEN 0
    ELSE LET i == CHOOSE x \in positions : TRUE
         IN  playedPatterns[i].stepsCount + StepsOf(playedPatterns, positions \ {i})

PlayedSteps(song) == StepsOf(PlayedPatterns(song), DOMAIN PlayedPatterns(song))

PlaysNoNotes(song) ==
    \A i \in DOMAIN PlayedPatterns(song) :
        \A c \in DOMAIN PlayedPatterns(song)[i].channels :
            \A k \in DOMAIN PlayedPatterns(song)[i].channels[c].steps :
                ~PlayedPatterns(song)[i].channels[c].steps[k].present

\* floor(duration * sampleRate) for the duration of one pass over patternOrder.
ExpectedFrames(song, options) ==
    (PlayedSteps(song) * 60 * options.sampleRate) \div (song.stepsPerBeat * song.bpm)

\* C28: exporting a song whose patterns hold no notes succeeds and yields
\* only zero samples, floor(duration * sampleRate) frames for each output
\* channel, in a buffer of 44 + frames * channels * bytesPerSample bytes.
C28_SilenceOfRightLength ==
    (exportResult.done /\ PlaysNoNotes(exportSong))
        => LET frames == ExpectedFrames(exportSong, exportOptions)
           IN  /\ \A k \in DOMAIN exportResult.samples : exportResult.samples[k] = 0
               /\ Len(exportResult.samples) = frames * exportOptions.audioChannels
               /\ exportResult.data.byteLength
                      = 44 + frames * exportOptions.audioChannels
                                    * (exportOptions.bitDepth \div 8)
               /\ exportResult.size = exportResult.data.byteLength

\* Two empty patterns exported in stereo at 24 bits.
C28_Witness ==
    /\ exportResult.done
    /\ exportSong.patternOrder = <<"p2", "p2">>
    /\ exportOptions.bitDepth = 24
    /\ exportOptions.audioChannels = 2
    /\ Len(exportResult.samples) > 0

\* C29: the header of every exported file agrees with the buffer: bytes 4-7
\* hold the length - 8, bytes 40-43 the length - 44, bytes 22-23 the channel
\* count, bytes 24-27 the sample rate, the byte rate is sampleRate * channels
\* * bytesPerSample, block align is channels * bytesPerSample, bits per
\* sample is the bit depth, and the data size is a multiple of block align.
C29_HeaderConsistent ==
    exportResult.done
        => LET wav == exportResult.data
               bytesPerSample == exportOptions.bitDepth \div 8
           IN  /\ wav.byteLength = 44 + Len(wav.pcm) * bytesPerSample
               /\ wav.riffSize = wav.byteLength - 8
               /\ wav.dataSize = wav.byteLength - 44
               /\ wav.numChannels = exportOptions.audioChannels
               /\ wav.sampleRate = exportOptions.sampleRate
               /\ wav.byteRate = exportOptions.sampleRate * exportOptions.audioChannels
                                     * bytesPerSample
               /\ wav.blockAlign = exportOptions.audioChannels * bytesPerSample
               /\ wav.bitsPerSample = exportOptions.bitDepth
               /\ wav.dataSize % wav.blockAlign = 0

\* A song with notes exported in stereo at 16 bits.
C29_Witness ==
    /\ exportResult.done
    /\ exportSong.patternOrder = <<"p1", "p2">>
    /\ exportOptions = [sampleRate |-> 40, bitDepth |-> 16, audioChannels |-> 2]
    /\ exportResult.data.dataSize > 0
    /\ \E k \in DOMAIN exportResult.data.pcm : exportResult.data.pcm[k] # 0

\* The size of the export of the same song with the same sample rate and
\* channel count at another bit depth.
SizeAt(bitDepth) ==
    Exporter_export(exportSong, [exportOptions EXCEPT !.bitDepth = bitDepth]).size

\* C30: for a fixed song, sample rate and channel count the exported size
\* grows strictly with the bit depth: size(8) < size(16) < size(24) < size(32).
C30_SizeGrowsWithBitDepth ==
    exportResult.done
        => /\ exportResult.size = SizeAt(exportOptions.bitDepth)
           /\ SizeAt(8) < SizeAt(16)
           /\ SizeAt(16) < SizeAt(24)
           /\ SizeAt(24) < SizeAt(32)

\* C31: an export that returns a file was given a supported bit depth and a
\* song that is not empty; an unsupported bit depth or an empty song yields a
\* failed result and no buffer, in particular no header-only one.
C31_RejectedExportsFail ==
    exportResult.done =>
        /\ exportOptions.bitDepth \in {8, 16, 24, 32}
        /\ exportSong.patternOrder # <<>>

\* The mix of one step as specified: the samples of the channels that sound
\* (hold a note that is not a rest) summed, and divided by their number when
\* more than one sounds.
ExpectedMix(pattern, stepIndex, options, numSamples) ==
    LET sounding == {c \in DOMAIN pattern.channels :
                        /\ (stepIndex + 1) \in DOMAIN pattern.channels[c].steps
                        /\ pattern.channels[c].steps[stepIndex + 1].present
                        /\ ~pattern.channels[c].steps[stepIndex + 1].rest}
        rendered == [c \in sounding |->
                        renderNote(pattern.channels[c].steps[stepIndex + 1],
                                   pattern.channels[c].waveform,
                                   options.sampleRate, numSamples)]
    IN  [i \in 1 .. numSamples |->
            IF Cardinality(sounding) > 1
            THEN sumOver(sounding, rendered, i) \div Cardinality(sounding)
            ELSE sumOver(sounding, rendered, i)]

\* C32: every frame the export writes for a step holds the sum of the samples
\* of the channels sounding at that step, divided by their number when more
\* than one sounds and undivided when one sounds; it lies in [-1, 1].
C32_MixNormalized ==
    exportResult.done =>
        LET playedPatterns == PlayedPatterns(exportSong)
            samplesPerStep == floorSamples(Exporter_getStepDuration(exportSong),
                                           exportOptions.sampleRate)
        IN  \A pos \in DOMAIN playedPatterns :
                \A stepIndex \in 0 .. (playedPatterns[pos].stepsCount - 1) :
                    LET before == StepsOf(playedPatterns,
                                          {q \in DOMAIN playedPatterns : q < pos})
                        mix == ExpectedMix(playedPatterns[pos], stepIndex,
                                           exportOptions, samplesPerStep)
                    IN  \A i \in 1 .. samplesPerStep :
                            LET frame == (before + stepIndex) * samplesPerStep + (i - 1)
                                k == frame * exportOptions.audioChannels + 1
                            IN  k \in DOMAIN exportResult.samples =>
                                    /\ exportResult.samples[k] = mix[i]
                                    /\ exportResult.samples[k] >= 0 - SampleUnit
                                    /\ exportResult.samples[k] <= SampleUnit

\* C33: a timer tick triggers a step only at a time earlier than now + the
\* look-ahead window, and when the tick has ended with the engine still
\* playing, the time of the next unscheduled step is at or beyond now + the
\* look-ahead window.
C33_LookAheadWindow ==
    [][(liveTimers > 0 /\ ~hung' /\ Tick)
           => /\ \A v \in voices' \ voices : v.start < now + SCHEDULE_AHEAD_TIME
              /\ state' = "playing"
                    => startTime' + currentStep' * ((60000 \div bpm') \div 4)
                           >= now + SCHEDULE_AHEAD_TIME]_vars

\* C34: the steps a tick triggers are one stepDuration apart, pattern wraps
\* included: the time of the next step to trigger has moved forward by one
\* stepDuration for every step the tick triggered, so no step is triggered
\* for a time already used and no pass lies on top of the previous one.
C34_StepsOneDurationApart ==
    [][(liveTimers > 0 /\ state = "playing" /\ state' = "playing"
            /\ error' = "none" /\ Tick)
           => getNextNoteTime(Eng)' = getNextNoteTime(Eng) + iterations' * getStepDuration(Eng)]_vars

\* C35: while a pattern is loaded the playhead is a step index of it:
\* 0 <= currentStep < currentPattern.stepCount.
C35_PlayheadInRange ==
    currentPattern # NullPattern
        => (currentStep >= 0 /\ currentStep < currentPattern.stepCount)

\* C36: the scheduling pass in which song playback exhausts its loops ends
\* there: it leaves the engine stopped and throws no error.
C36_FinishedTickEndsCleanly ==
    songFinished => (state = "stopped" /\ error = "none")

\* C37: a session begun by start(pattern, bpm) never takes the
\* song-completion path, and it leaves Playing only by pause() or stop().
C37_PatternLoopsUntilStopped ==
    /\ [](sessionKind = "pattern" => ~songFinished)
    /\ [][(sessionKind = "pattern" /\ state = "playing" /\ state' # "playing")
              => (Pause \/ Stop)]_vars

\* C38: at most one scheduling timer exists, one is pending exactly when the
\* state is Playing, and from Paused or Stopped no step is triggered except
\* by a call that begins a session (start, startSong: the session count
\* grows) or resumes one (resume() from Paused).
C38_OneTimerWhilePlaying ==
    /\ [](/\ liveTimers <= 1
          /\ liveTimers = 1 <=> state = "playing"
          /\ scheduleInterval <=> state = "playing")
    /\ [][(state # "playing" /\ sessions' = sessions
              /\ ~(state = "paused" /\ lastCall' = "resume"))
             => (voices' \subseteq voices /\ iterations' = iterations)]_vars

\* Playback resumed after a pause, with its one timer, has triggered a step.
C38_Witness ==
    /\ lastCall = "resume"
    /\ state = "playing"
    /\ liveTimers = 1
    /\ iterations > 0
    /\ now > 0

\* C39: the mixer tracks no gain node of a voice that has ended, so a channel
\* counted by getActiveChannelCount has a voice that has not ended.
C39_MixerForgetsEndedVoices ==
    /\ \A i \in DOMAIN channels :
          \A node \in channels[i] : oscillators[node.gainOf].status # "ended"
    /\ getActiveChannelCount(Mix)
          <= Cardinality({c \in DOMAIN channels :
                             \E osc \in DOMAIN oscillators :
                                 /\ oscillators[osc].channelIndex = c
                                 /\ oscillators[osc].status # "ended"})

====
